---- MODULE Spec2Model ----
(***************************************************************************)
(* Model of the autonomous development loop of src/autonomous_agent.py:    *)
(* AutonomousAgent (scaffolding, loading, test runner, assistant bridge,   *)
(* iteration loop, report generator) and the command-line entry point.     *)
(***************************************************************************)
EXTENDS Integers, Sequences, FiniteSets, TLC

\* ------------------------------------------------------------------ bounds
MaxCap == 3             \* largest iteration cap explored (the code sets 50)

MaxCalls == 2           \* calls of the loop on one agent explored

\* --------------------------------------------------------- the environment
\* Entries of the project directory that setup_project_structure touches.
SrcDir    == "src"
TestsDir  == "tests"
SrcInit   == "src/__init__.py"
TestsInit == "tests/__init__.py"
Paths     == {SrcDir, TestsDir, SrcInit, TestsInit}
Parent(p) == IF p = SrcInit THEN SrcDir ELSE TestsDir

\* A layout gives each entry a kind; a marker exists only inside a directory.
Layouts ==
    {f \in [Paths -> {"absent", "file", "dir"}] :
        \A p \in {SrcInit, TestsInit} : f[p] # "absent" => f[Parent(p)] = "dir"}

\* What one invocation of the external pytest command can do: run to
\* completion with a return code and captured output, never finish, fail to
\* start (OSError and the like), or be cut short by the user's Ctrl-C.
ExitCodes == {0, 1, 2}
Outputs   == {"out_a", "out_b"}
Completed == [kind : {"exit"}, returncode : ExitCodes, output : Outputs]
Hang      == [kind |-> "hang",    returncode |-> 0, output |-> ""]
OsError   == [kind |-> "oserror", returncode |-> 0, output |-> ""]
SigInt    == [kind |-> "sigint",  returncode |-> 0, output |-> ""]
CmdBehaviours == Completed \cup {Hang, OsError, SigInt}

NoTimeout == 0          \* subprocess.run called without timeout=
TestTimeout == 60       \* timeout=60 of run_tests

VARIABLES
    fs,              \* layout of project_dir
    fs0,             \* the layout the run started from
    reqExists,       \* project_dir/PROJECT_REQUIREMENTS.md exists
    sysExists,       \* SYSTEM_INSTRUCTIONS.md exists
    max_iterations,  \* self.max_iterations
    iteration,       \* self.iteration
    pc,              \* position of the process
    test_results,    \* local test_results of the loop
    coverage_result, \* local coverage_result of generate_final_report
    report,          \* content of COMPLETION_REPORT.md
    success,         \* value returned by autonomous_development_loop
    exc,             \* exception propagating out of the loop
    exitCode,        \* argument of sys.exit
    cmd,             \* how the latest run of the test command behaved
    interrupted,     \* the user pressed Ctrl-C during the run
    log              \* what the run has done so far, in order

\* What no step of the program changes.
env == <<fs0, reqExists, sysExists, max_iterations>>

vars == <<fs, env, iteration, pc, cmd, test_results, coverage_result, report,
          success, exc, interrupted, exitCode, log>>

NoResult == [passed |-> FALSE, output |-> "", returncode |-> 0]
NoReport == [written |-> FALSE, iterations |-> 0, test_output |-> "", coverage |-> ""]
NoCmd    == [kind |-> "none", returncode |-> 0, output |-> ""]
NoExc    == [type |-> "none", from |-> "none"]
Event(ev, it, passed, out) == [ev |-> ev, it |-> it, passed |-> passed, out |-> out]

\* ------------------------------------------------------------ pure helpers
\* Path.mkdir(exist_ok=True): creates a missing directory, accepts an
\* existing one, raises FileExistsError on an existing non-directory.
mkdir(f, p) ==
    IF f[p] = "absent" THEN [fs |-> [f EXCEPT ![p] = "dir"], raised |-> FALSE]
    ELSE IF f[p] = "dir" THEN [fs |-> f, raised |-> FALSE]
    ELSE [fs |-> f, raised |-> TRUE]

\* Path.touch(): creates a missing file, only updates the times of an
\* existing entry; raises when the parent is not a directory.
touch(f, p) ==
    IF f[Parent(p)] # "dir" THEN [fs |-> f, raised |-> TRUE]
    ELSE IF f[p] = "absent" THEN [fs |-> [f EXCEPT ![p] = "file"], raised |-> FALSE]
    ELSE [fs |-> f, raised |-> FALSE]

\* A scaffolder that decides from the layout it found on entry whether a
\* marker is due, so a directory it has just created gets none.
setup_project_structure_stale(f) ==
    LET s1 == mkdir(f, SrcDir)
        d  == IF s1.raised THEN s1 ELSE mkdir(s1.fs, TestsDir)
        a  == IF d.raised \/ f[SrcDir] # "dir" THEN d ELSE touch(d.fs, SrcInit)
    IN  IF a.raised \/ f[TestsDir] # "dir" THEN a ELSE touch(a.fs, TestsInit)

\* The four statements in order; one that raises ends the call.
setup_project_structure(f) ==
    LET s1 == mkdir(f, SrcDir)
        s2 == IF s1.raised THEN s1 ELSE mkdir(s1.fs, TestsDir)
        s3 == IF s2.raised THEN s2 ELSE touch(s2.fs, SrcInit)
    IN  IF s3.raised THEN s3 ELSE touch(s3.fs, TestsInit)

\* A loader that returns an empty text for a missing file.
read_requirements_lenient(exists) == [raised |-> FALSE]

read_requirements(exists) ==
    IF exists THEN [raised |-> FALSE] ELSE [raised |-> TRUE]

\* subprocess.run(cmd, timeout=t) for a command behaving as b.
subprocess_run(b, t) ==
    IF b.kind = "exit" THEN [kind |-> "completed", returncode |-> b.returncode, output |-> b.output]
    ELSE IF b.kind = "hang" THEN
        IF t # NoTimeout THEN [kind |-> "TimeoutExpired", returncode |-> 0, output |-> ""]
        ELSE [kind |-> "blocked", returncode |-> 0, output |-> ""]
    ELSE IF b.kind = "oserror" THEN [kind |-> "Exception", returncode |-> 0, output |-> ""]
    ELSE [kind |-> "KeyboardInterrupt", returncode |-> 0, output |-> ""]

\* A test runner whose only handler is the one for TimeoutExpired.
run_tests_timeout_only(b) ==
    LET r == subprocess_run(b, TestTimeout) IN
    IF r.kind = "completed" THEN
        [raises |-> "none", passed |-> r.returncode = 0, output |-> r.output, returncode |-> r.returncode]
    ELSE IF r.kind = "TimeoutExpired" THEN
        [raises |-> "none", passed |-> FALSE, output |-> "Tests timed out after 60 seconds", returncode |-> -1]
    ELSE
        [raises |-> r.kind, passed |-> FALSE, output |-> "", returncode |-> 0]

\* run_tests: the try/except around subprocess.run.  `except Exception'
\* does not catch KeyboardInterrupt, which leaves the function.
run_tests(b) ==
    LET r == subprocess_run(b, TestTimeout) IN
    IF r.kind = "completed" THEN
        [raises |-> "none", passed |-> r.returncode = 0, output |-> r.output, returncode |-> r.returncode]
    ELSE IF r.kind = "TimeoutExpired" THEN
        [raises |-> "none", passed |-> FALSE, output |-> "Tests timed out after 60 seconds", returncode |-> -1]
    ELSE IF r.kind = "Exception" THEN
        [raises |-> "none", passed |-> FALSE, output |-> "Error running tests", returncode |-> -1]
    ELSE
        [raises |-> r.kind, passed |-> FALSE, output |-> "", returncode |-> 0]

\* A loop head that lets the counter run one past the cap.
while_cond_le(it, max) == it <= max

\* The condition of the while statement.
while_cond(it, max) == it < max

\* A counter that is advanced twice per pass.
increment_twice(it) == it + 2

\* self.iteration += 1
increment(it) == it + 1

\* An entry point that treats the user's interrupt as a clean exit.
main_interrupt_clean(returned, excType) ==
    IF excType = "none" THEN (IF returned = "True" THEN 0 ELSE 1)
    ELSE IF excType = "KeyboardInterrupt" THEN 0
    ELSE 1

\* main: the status handed to sys.exit for each way the loop can end.
main(returned, excType) ==
    IF excType = "none" THEN (IF returned = "True" THEN 0 ELSE 1)
    ELSE IF excType = "KeyboardInterrupt" THEN 1
    ELSE 1

\* -------------------------------------------------------------------- Init
Init ==
    /\ fs \in Layouts
    /\ fs0 = fs
    /\ reqExists \in BOOLEAN
    /\ sysExists \in BOOLEAN
    /\ max_iterations \in 0..MaxCap
    /\ iteration = 0
    /\ pc = "setup"
    /\ cmd = NoCmd
    /\ test_results = NoResult
    /\ coverage_result = ""
    /\ report = NoReport
    /\ success = "none"
    /\ exc = NoExc
    /\ interrupted = FALSE
    /\ exitCode = -1
    /\ log = <<>>

\* An exception of the given type leaves the loop from the given place.
Raise(type, from) ==
    /\ pc' = "raised"
    /\ exc' = [type |-> type, from |-> from]
    /\ interrupted' = (interrupted \/ type = "KeyboardInterrupt")

NoRaise == UNCHANGED <<exc, interrupted>>

\* ----------------------------------------------------------------- actions
\* A loop that starts every call by setting the counter back to 0.
Setup_reset ==
    /\ pc = "setup"
    /\ iteration' = 0
    /\ LET r == setup_project_structure(fs) IN
        /\ fs' = r.fs
        /\ log' = Append(log, Event("setup", iteration, FALSE, ""))
        /\ IF r.raised THEN Raise("Exception", "setup_project_structure")
           ELSE pc' = "read_requirements" /\ NoRaise
    /\ UNCHANGED <<env, cmd, test_results, coverage_result, report,
                   success, exitCode>>

\* Step 1 of autonomous_development_loop.
Setup ==
    /\ pc = "setup"
    /\ LET r == setup_project_structure(fs) IN
        /\ fs' = r.fs
        /\ log' = Append(log, Event("setup", iteration, FALSE, ""))
        /\ IF r.raised THEN Raise("Exception", "setup_project_structure")
           ELSE pc' = "read_requirements" /\ NoRaise
    /\ UNCHANGED <<env, iteration, cmd, test_results, coverage_result, report,
                   success, exitCode>>

\* Step 2.
ReadRequirements ==
    /\ pc = "read_requirements"
    /\ IF read_requirements(reqExists).raised
       THEN Raise("Exception", "read_requirements")
       ELSE pc' = "initial_prompt" /\ NoRaise
    /\ UNCHANGED <<fs, env, iteration, cmd, test_results, coverage_result,
                   report, success, exitCode, log>>

\* Step 3: the f-string opens SYSTEM_INSTRUCTIONS.md, then send_to_claude.
InitialPrompt ==
    /\ pc = "initial_prompt"
    /\ IF ~sysExists
       THEN Raise("Exception", "open") /\ log' = log
       ELSE /\ pc' = "while"
            /\ NoRaise
            /\ log' = Append(log, Event("initial_prompt", iteration, FALSE, ""))
    /\ UNCHANGED <<fs, env, iteration, cmd, test_results, coverage_result,
                   report, success, exitCode>>

\* Step 4: the loop head, and on entry the increment and the start of the
\* test command.
While ==
    /\ pc = "while"
    /\ IF while_cond(iteration, max_iterations)
       THEN /\ iteration' = increment(iteration)
            /\ log' = Append(log, Event("run_tests", iteration', FALSE, ""))
            /\ pc' = "run_tests"
            /\ success' = success
       ELSE /\ pc' = "returned"
            /\ success' = "False"
            /\ UNCHANGED <<iteration, log>>
    /\ UNCHANGED <<fs, env, cmd, test_results, coverage_result, report, exc,
                   interrupted, exitCode>>

\* The test command ends one way or another and the loop branches on passed.
RunTests ==
    /\ pc = "run_tests"
    /\ \E b \in CmdBehaviours :
        LET r == run_tests(b) IN
        /\ cmd' = b
        /\ IF r.raises # "none"
           THEN /\ Raise(r.raises, "run_tests")
                /\ UNCHANGED <<test_results, log>>
           ELSE /\ test_results' = [passed |-> r.passed, output |-> r.output,
                                    returncode |-> r.returncode]
                /\ log' = Append(log, Event("test_result", iteration, r.passed, r.output))
                /\ pc' = IF r.passed THEN "generate_final_report" ELSE "debug_prompt"
                /\ NoRaise
    /\ UNCHANGED <<fs, env, iteration, coverage_result, report, success, exitCode>>

\* A debug prompt that leaves the test output out.
debug_prompt_without_output(it, tr) == Event("debug_prompt", it, FALSE, "")

\* The f-string debug_prompt: the iteration number and test_results['output'].
debug_prompt(it, tr) == Event("debug_prompt", it, FALSE, tr.output)

\* Tests failed: the debug prompt is built from test_results and sent.
DebugPrompt ==
    /\ pc = "debug_prompt"
    /\ log' = Append(log, debug_prompt(iteration, test_results))
    /\ pc' = "sleep"
    /\ UNCHANGED <<fs, env, iteration, cmd, test_results, coverage_result,
                   report, success, exc, interrupted, exitCode>>

\* A round that ends by going back to step 3 instead of to the loop head.
Sleep_resend ==
    /\ pc = "sleep"
    /\ log' = Append(log, Event("sleep", iteration, FALSE, ""))
    /\ pc' = "initial_prompt"
    /\ UNCHANGED <<fs, env, iteration, cmd, test_results, coverage_result,
                   report, success, exc, interrupted, exitCode>>

\* time.sleep(2), then back to the loop head.
Sleep ==
    /\ pc = "sleep"
    /\ log' = Append(log, Event("sleep", iteration, FALSE, ""))
    /\ pc' = "while"
    /\ UNCHANGED <<fs, env, iteration, cmd, test_results, coverage_result,
                   report, success, exc, interrupted, exitCode>>

\* generate_final_report, first half: the coverage invocation, made without
\* a timeout and outside any try.
Coverage ==
    /\ pc = "generate_final_report"
    /\ \E b \in CmdBehaviours :
        LET r == subprocess_run(b, NoTimeout) IN
        /\ log' = Append(log, Event("coverage", iteration, FALSE, ""))
        /\ IF r.kind = "completed"
           THEN pc' = "write_report" /\ coverage_result' = r.output /\ NoRaise
           ELSE IF r.kind = "blocked"
           THEN pc' = "blocked" /\ UNCHANGED coverage_result /\ NoRaise
           ELSE Raise(r.kind, "generate_final_report") /\ UNCHANGED coverage_result
    /\ UNCHANGED <<fs, env, iteration, cmd, test_results, report, success, exitCode>>

\* A report whose "Test Results" section is filled from the coverage run.
report_text_from_coverage(it, tr, cov) ==
    [written |-> TRUE, iterations |-> it, test_output |-> cov, coverage |-> cov]

\* The f-string of generate_final_report: self.iteration, the output of the
\* test_results argument and the stdout of the coverage run.
report_text(it, tr, cov) ==
    [written |-> TRUE, iterations |-> it, test_output |-> tr.output, coverage |-> cov]

\* generate_final_report, second half: the report is written and the loop
\* returns True.
WriteReport ==
    /\ pc = "write_report"
    /\ report' = report_text(iteration, test_results, coverage_result)
    /\ log' = Append(log, Event("report", iteration, FALSE, report'.test_output))
    /\ pc' = "returned"
    /\ success' = "True"
    /\ UNCHANGED <<fs, env, iteration, cmd, test_results, coverage_result, exc,
                   interrupted, exitCode>>

\* Ctrl-C while the loop is between two external commands (or stuck in one).
InterruptiblePcs ==
    {"setup", "read_requirements", "initial_prompt", "while", "debug_prompt",
     "sleep", "write_report", "blocked"}

Interrupt ==
    /\ pc \in InterruptiblePcs
    /\ Raise("KeyboardInterrupt", pc)
    /\ UNCHANGED <<fs, env, iteration, cmd, test_results, coverage_result,
                   report, success, exitCode, log>>

\* main: sys.exit after the loop returned or raised.
MainExit ==
    /\ pc \in {"returned", "raised"}
    /\ exitCode' = main(success, exc.type)
    /\ pc' = "exited"
    /\ UNCHANGED <<fs, env, iteration, cmd, test_results, coverage_result,
                   report, success, exc, interrupted, log>>

ProgramStep ==
    \/ Setup
    \/ ReadRequirements
    \/ InitialPrompt
    \/ While
    \/ RunTests
    \/ DebugPrompt
    \/ Sleep
    \/ Coverage
    \/ WriteReport
    \/ MainExit

Next ==
    \/ ProgramStep
    \/ Interrupt

Spec == Init /\ [][Next]_vars

\* The process is single-threaded and keeps running while it has a step.
FairSpec == Spec /\ WF_vars(ProgramStep)

\* autonomous_development_loop is called again on the same agent after a
\* call has returned: the locals start afresh, the agent's fields
\* (iteration, max_iterations, project_dir) are what the last call left.
CallAgain ==
    /\ pc = "returned"
    /\ Cardinality({i \in DOMAIN log : log[i].ev = "call_again"}) < MaxCalls - 1
    /\ log' = Append(log, Event("call_again", iteration, FALSE, success))
    /\ pc' = "setup"
    /\ success' = "none"
    /\ exc' = NoExc
    /\ UNCHANGED <<fs, env, iteration, cmd, test_results, coverage_result,
                   report, interrupted, exitCode>>

NextReuse ==
    \/ Next
    \/ CallAgain

\* One agent whose loop is called up to MaxCalls times before the exit.
SpecReuse == Init /\ [][NextReuse]_vars

\* ------------------------------------------------------- reading the log
Evs(ev)   == {i \in DOMAIN log : log[i].ev = ev}
Count(ev) == Cardinality(Evs(ev))

\* No run of the test command has passed so far.
NoPass == \A i \in Evs("test_result") : ~log[i].passed
\* The first run of the test command has ended and passed.
FirstPassed == \E i \in Evs("test_result") : log[i].it = 1 /\ log[i].passed

\* The layout has both directories and both markers.
Complete(f) ==
    /\ f[SrcDir] = "dir" /\ f[TestsDir] = "dir"
    /\ f[SrcInit] # "absent" /\ f[TestsInit] # "absent"

\* ------------------------------------------------------------------ claims

\* C1: when every run of the test command ends non-passing, the report is
\* never written and the coverage invocation never happens; the loop, unless
\* the user interrupts it, ends by returning failure, and it has then made
\* exactly max_iterations test executions.
C1_ExactlyNRuns ==
    NoPass =>
        /\ ~report.written
        /\ Count("coverage") = 0
        /\ success # "True"
        /\ (Count("initial_prompt") = 1 => exc.type # "Exception")
        /\ (pc \in {"returned", "exited"} /\ exc.type = "none" =>
                /\ success = "False"
                /\ Count("run_tests") = max_iterations
                /\ Count("test_result") = max_iterations)

C1_Witness ==
    /\ pc = "exited" /\ success = "False" /\ exitCode = 1
    /\ max_iterations = MaxCap /\ Count("test_result") = MaxCap /\ NoPass

\* C2 (as claimed): a run whose first test execution exits 0, and which the
\* user does not interrupt, ends after one iteration with success and with
\* the completion report written.
C2_Claim ==
    (FirstPassed /\ ~interrupted /\ pc \in {"raised", "blocked", "exited"}) =>
        /\ success = "True"
        /\ iteration = 1
        /\ Count("run_tests") = 1
        /\ Count("debug_prompt") = 0
        /\ report.written

\* C3: run_tests hands every outcome of the test command back as a result:
\* passed exactly when the command completed with exit code 0, and not
\* passed with return code -1 on timeout and on an invocation error.  Only
\* the user's interrupt leaves run_tests as an exception.
C3_RunTestsNeverRaises ==
    /\ exc.from = "run_tests" => (exc.type = "KeyboardInterrupt" /\ cmd = SigInt)
    /\ cmd.kind \in {"exit", "hang", "oserror"} =>
        /\ exc.from # "run_tests"
        /\ Count("test_result") = Count("run_tests") - (IF pc = "run_tests" THEN 1 ELSE 0)
        /\ test_results.passed <=> (cmd.kind = "exit" /\ cmd.returncode = 0)
        /\ cmd.kind = "exit" => test_results.returncode = cmd.returncode
        /\ cmd.kind \in {"hang", "oserror"} =>
                (~test_results.passed /\ test_results.returncode = -1)

C3_Witness ==
    /\ pc = "debug_prompt" /\ cmd = OsError
    /\ ~test_results.passed /\ test_results.returncode = -1

\* C4 (as claimed): once the initial prompt has been sent, a run the user
\* does not interrupt never hangs and the loop never ends by an exception:
\* it ends by returning success or by returning failure.
C4_Claim ==
    (Count("initial_prompt") = 1 /\ ~interrupted) =>
        /\ pc \notin {"raised", "blocked"}
        /\ pc = "exited" => success \in {"True", "False"}

\* C5: the counter stays within 0..max_iterations, equals the number of test
\* executions started, never decreases, and goes up by exactly one exactly
\* when the loop starts a pass.
C5_Counter ==
    /\ [](/\ 0 <= iteration
          /\ iteration <= max_iterations
          /\ iteration = Count("run_tests"))
    /\ [][/\ iteration' >= iteration
          /\ iteration' # iteration <=>
                (pc = "while" /\ pc' = "run_tests" /\ iteration' = iteration + 1)]_vars

C5_Witness ==
    /\ pc = "run_tests" /\ iteration = MaxCap /\ max_iterations = MaxCap
    /\ Count("run_tests") = MaxCap

\* C6 (as claimed): a debug prompt is sent, and the delay taken, only after
\* a failed test run with counter < max_iterations; and when the loop has
\* returned, its last debug prompt was followed by another test run.
C6_Claim ==
    /\ \A i \in Evs("debug_prompt") \cup Evs("sleep") : log[i].it < max_iterations
    /\ pc = "returned" =>
            \A i \in Evs("debug_prompt") : \E j \in Evs("run_tests") : j > i

\* C7: the process exits with 0 exactly when the loop returned success, and
\* with 1 when the cap was exhausted, when an error left the loop, and when
\* the user interrupted the run.
C7_ExitCode ==
    pc = "exited" =>
        /\ exitCode \in {0, 1}
        /\ exitCode = 0 <=> (exc.type = "none" /\ success = "True")
        /\ success = "False" => exitCode = 1
        /\ exc.type # "none" => exitCode = 1
        /\ interrupted => exitCode = 1

C7_Witness ==
    /\ pc = "exited" /\ exitCode = 1
    /\ interrupted /\ exc.from = "run_tests" /\ iteration = 2

\* C8: when the requirements document or the system-instructions document
\* is missing, no test command is run, no prompt is sent, no report is
\* written, the loop does not return, and the process exits with 1.
C8_MissingDocs ==
    (~reqExists \/ ~sysExists) =>
        /\ Count("run_tests") = 0
        /\ Count("coverage") = 0
        /\ Count("initial_prompt") = 0
        /\ Count("debug_prompt") = 0
        /\ ~report.written
        /\ pc \notin {"while", "returned"}
        /\ success = "none"
        /\ pc = "exited" => (exitCode = 1 /\ exc.type # "none")

C8_Witness ==
    /\ pc = "exited" /\ exitCode = 1
    /\ reqExists /\ ~sysExists /\ exc = [type |-> "Exception", from |-> "open"]

\* C9: once setup_project_structure has run, running it again leaves the
\* directories and marker files as they are; and a run that started from a
\* complete layout has left it as it was.
C9_Idempotent ==
    Count("setup") = 1 =>
        /\ setup_project_structure(fs).fs = fs
        /\ Complete(fs0) => fs = fs0

C9_Witness ==
    /\ pc = "read_requirements"
    /\ \A p \in Paths : fs0[p] = "absent"
    /\ Complete(fs)

\* C10 (as claimed): every invocation of the test command is bounded by the
\* timeout, so whichever invocation hangs the run reaches its end.
C10_Claim == <>(pc = "exited")

\* C11: the run scaffolds, then sends the initial prompt, then runs the
\* tests: the initial prompt is sent at most once, after the scaffolding and
\* before every test execution, no test execution happens without it, and
\* once it is sent with a cap of at least 1 the only thing that can come
\* before the first test execution is the user's interrupt.
C11_StartupOrder ==
    /\ Count("initial_prompt") <= 1
    /\ Count("setup") <= 1
    /\ \A i \in Evs("initial_prompt") :
            /\ reqExists /\ sysExists
            /\ \E j \in Evs("setup") : j < i
    /\ \A i \in Evs("run_tests") : \E j \in Evs("initial_prompt") : j < i
    /\ (Count("initial_prompt") = 1 /\ max_iterations >= 1 /\ Count("run_tests") = 0) =>
            \/ pc = "while"
            \/ (pc \in {"raised", "exited"} /\ exc = [type |-> "KeyboardInterrupt", from |-> "while"])

C11_Witness ==
    /\ pc = "run_tests" /\ iteration = 2
    /\ Count("initial_prompt") = 1 /\ Count("run_tests") = 2

\* The latest test result in the log.
LastResult == log[CHOOSE i \in Evs("test_result") : \A j \in Evs("test_result") : j <= i]

\* C12: the report is written at most once, only after a test run that
\* passed; it gives as iteration count the counter value of that passing run
\* and carries that run's output, which is the run's latest test result.
C12_Report ==
    /\ Count("report") <= 1
    /\ report.written <=> Count("report") = 1
    /\ report.written =>
        /\ Count("test_result") >= 1
        /\ LastResult.passed
        /\ report.iterations = LastResult.it
        /\ report.iterations = iteration
        /\ report.test_output = LastResult.out
        /\ \A i \in Evs("report") : log[i].out = LastResult.out
        /\ \A i \in Evs("test_result") : log[i].passed => log[i] = LastResult

C12_Witness ==
    /\ report.written /\ report.iterations = 2
    /\ report.test_output = "out_a" /\ report.coverage = "out_b"
    /\ \E i \in Evs("test_result") : ~log[i].passed /\ log[i].out = "out_b"

\* C13: every debug prompt comes directly after the failed test result of
\* its own iteration and carries that result's output; between two
\* consecutive test executions exactly one debug prompt is sent.
C13_DebugPrompt ==
    /\ \A i \in Evs("debug_prompt") :
            /\ i > 1
            /\ log[i - 1].ev = "test_result"
            /\ ~log[i - 1].passed
            /\ log[i - 1].it = log[i].it
            /\ log[i - 1].out = log[i].out
    /\ \A i, j \in Evs("run_tests") :
            (log[j].it = log[i].it + 1) =>
                Cardinality({k \in Evs("debug_prompt") : i < k /\ k < j}) = 1

C13_Witness ==
    /\ pc = "sleep" /\ iteration = 2
    /\ \E i, j \in Evs("debug_prompt") :
            /\ log[i].it = 1 /\ log[i].out = "out_a"
            /\ log[j].it = 2 /\ log[j].out = "out_b"

\* C14 (as claimed): whatever the coverage invocation does (exit 0, exit
\* non-zero, fail to start), a run whose test run passed and which the user
\* did not interrupt has, when it ends, written the report, returned success
\* and exited with 0.
C14_Claim ==
    (pc = "exited" /\ ~interrupted /\ Count("coverage") = 1) =>
        /\ report.written
        /\ success = "True"
        /\ exitCode = 0

\* The latest call of the loop follows a call that returned failure.
AfterExhausted(i) ==
    /\ log[i].ev = "call_again"
    /\ log[i].out = "False"

\* C15: over all calls of the loop on one agent the counter is never set
\* back: it equals the total number of test executions, which never exceeds
\* max_iterations.  A call that follows an exhausted one scaffolds, loads
\* and sends the initial prompt again, makes no test execution and returns
\* failure.
C15_NoReset ==
    /\ iteration = Count("run_tests")
    /\ Count("run_tests") <= max_iterations
    /\ \A i \in DOMAIN log : AfterExhausted(i) =>
        /\ log[i].it = max_iterations
        /\ iteration = max_iterations
        /\ \A j \in DOMAIN log : j > i =>
                log[j].ev \in {"setup", "initial_prompt", "call_again"}
        /\ success # "True"
        /\ (pc = "returned" /\ \A j \in DOMAIN log : j > i => log[j].ev # "call_again") =>
                /\ success = "False"
                /\ \E j \in Evs("setup") : j > i
                /\ \E j \in Evs("initial_prompt") : j > i

C15_Witness ==
    /\ pc = "returned" /\ success = "False"
    /\ max_iterations = 2 /\ Count("run_tests") = 2
    /\ Count("setup") = 2 /\ Count("initial_prompt") = 2
    /\ \E i \in DOMAIN log : AfterExhausted(i)

====
